---- MODULE Spec2Model ----
(***************************************************************************)
(* pure-random-number: unbiased integer in [minimum, maximum] extracted    *)
(* from random bytes by masking and rejection sampling.                    *)
(*                                                                         *)
(* Two releases of the library are in the repository: src/index.js (3.0,   *)
(* randomNumber only) and the listing in src/README.md lines 134-277 (3.2, *)
(* randomNumber built on the exported randomSeedNumber and bytesNeeded).   *)
(*                                                                         *)
(* JavaScript numbers of the program are integer-valued doubles of up to   *)
(* 54 bits.  A number x is held as two limbs, x = hi * Limb + lo with      *)
(* 0 <= lo < Limb, so that every limb stays a 32-bit integer of TLC.       *)
(* The operands and results of the bitwise operators (<<, |, &) are        *)
(* 32-bit two's complement integers and are held as plain integers in      *)
(* -2^31 .. 2^31 - 1.                                                      *)
(***************************************************************************)
EXTENDS Integers, Sequences, FiniteSets, TLC

VARIABLES pc, op, minimum, maximum, generator, seed, range, params,
          calls, requested, draws, result, error

vars == <<pc, op, minimum, maximum, generator, seed, range, params,
          calls, requested, draws, result, error>>

----------------------------------------------------------------------------
(* Bounds of the model *)

\* Generator invocations followed within one randomNumber call.
MaxCalls == 3
\* Longest seed handed to randomSeedNumber.
MaxSeedLen == 4
\* calculateParameters is applied to every size in 0 .. MaxSize (and to the
\* large sizes of LargeSizes).
MaxSize == 300

----------------------------------------------------------------------------
(* Exact integers in two limbs *)

Limb == 2^27

Norm(h, l) == [hi |-> h + (l \div Limb), lo |-> l % Limb]
FromInt(n) == Norm(0, n)
Zero == FromInt(0)

NumLess(a, b) == a.hi < b.hi \/ (a.hi = b.hi /\ a.lo < b.lo)
NumLeq(a, b) == a = b \/ NumLess(a, b)
NumAdd(a, b) == Norm(a.hi + b.hi, a.lo + b.lo)
NumSub(a, b) == Norm(a.hi - b.hi, a.lo - b.lo)
NumNeg(a) == NumSub(Zero, a)
\* 2^k for 0 <= k <= 57
NumPow2(k) == IF k < 27 THEN Norm(0, 2^k) ELSE Norm(2^(k - 27), 0)

\* A double holds an integer exactly when it has at most 53 significant bits.
Pow53 == NumPow2(53)
Exact(x) ==
    \/ NumLeq(NumNeg(Pow53), x) /\ NumLeq(x, Pow53)
    \/ x.lo % 2 = 0 /\ NumLeq(NumNeg(NumPow2(54)), x) /\ NumLeq(x, NumPow2(54))

----------------------------------------------------------------------------
(* 32-bit operators of JavaScript *)

Pow30 == 2^30
MinInt32 == (0 - Pow30) - Pow30
MaxInt32 == (Pow30 - 1) + Pow30

\* The low 31 bits of a 32-bit integer; its sign bit is a < 0.
Low31(a) == IF a < 0 THEN (a + Pow30) + Pow30 ELSE a
Signed(negative, low) == IF negative THEN (low - Pow30) - Pow30 ELSE low

RECURSIVE BitAnd(_, _)
BitAnd(a, b) ==
    IF a = 0 \/ b = 0 THEN 0
    ELSE (a % 2) * (b % 2) + 2 * BitAnd(a \div 2, b \div 2)

RECURSIVE BitOr(_, _)
BitOr(a, b) ==
    IF a = 0 THEN b
    ELSE IF b = 0 THEN a
    ELSE (IF a % 2 = 1 \/ b % 2 = 1 THEN 1 ELSE 0) + 2 * BitOr(a \div 2, b \div 2)

\* a & b and a | b on 32-bit integers
And32(a, b) == Signed(a < 0 /\ b < 0, BitAnd(Low31(a), Low31(b)))
Or32(a, b) == Signed(a < 0 \/ b < 0, BitOr(Low31(a), Low31(b)))

\* a << 1 on a 32-bit integer: bit 30 becomes the sign, bit 31 is lost
ShiftLeft1(a) ==
    LET low == Low31(a)
    IN  Signed(low \div Pow30 = 1, 2 * (low % Pow30))

\* b << n for a byte b (undefined reads as 0); the shift count is taken
\* modulo 32 and the result is a 32-bit integer.
ShiftLeftByte(b, n) ==
    LET s == n % 32
        keep == b % (2^(31 - s))
    IN  IF s <= 23 THEN b * 2^s
        ELSE Signed((b \div 2^(31 - s)) % 2 = 1, keep * 2^s)

\* ToUint32(x) = x modulo 2^32, and x >>> 1
ToUint32(x) == [hi |-> x.hi % 32, lo |-> x.lo]
ShiftRightUnsigned1(x) ==
    LET u == ToUint32(x)
    IN  FromInt(u.hi * (Limb \div 2) + (u.lo \div 2))

----------------------------------------------------------------------------
(* Values handed to the library *)

\* A bound is an integer, an integer plus one half (1.5), or null.
Integer(n) == [kind |-> "int", n |-> n]
Fraction(n) == [kind |-> "frac", n |-> n]
Null == [kind |-> "null", n |-> Zero]

\* Number.MAX_SAFE_INTEGER = 2^53 - 1 and Number.MIN_SAFE_INTEGER
MAX_SAFE_INTEGER == NumSub(Pow53, FromInt(1))
MIN_SAFE_INTEGER == NumNeg(MAX_SAFE_INTEGER)

MinimumSamples ==
    {Integer(FromInt(k)) : k \in {0 - 3, 0, 1, 5, 10}}
        \cup {Integer(Pow53), Fraction(FromInt(1)), Null}

MaximumSamples ==
    {Integer(FromInt(k)) : k \in {0 - 3, 0, 2, 5, 6, 30, 300, Pow30}}
        \cup {Integer(NumPow2(32)), Integer(MAX_SAFE_INTEGER), Integer(Pow53),
              Fraction(FromInt(6)), Null}

Generators == {"function", "string"}

\* The buffers a generator delivers and a seed holds: n - 1 equal bytes
\* followed by a last byte, which is the high byte of the composed integer.
ByteSamples == {0, 5, 8, 128, 255}
FillSamples == {0, 255}
Buffers(n) ==
    IF n = 0 THEN {<<>>}
    ELSE {[i \in 1 .. n |-> IF i < n THEN a ELSE b] :
            a \in FillSamples, b \in ByteSamples}

\* A seed is a Uint8Array, a node Buffer, an ArrayBuffer or a plain array.
SeedKinds == {"Uint8Array", "Buffer", "ArrayBuffer", "Array"}
U8(bytes) == [kind |-> "Uint8Array", bytes |-> bytes]
Seeds ==
    {[kind |-> k, bytes |-> b] :
        k \in SeedKinds, b \in UNION {Buffers(n) : n \in 0 .. MaxSeedLen}}

LargeSizes ==
    {FromInt(2^24 - 1), FromInt(2^24), FromInt(Pow30 - 1), FromInt(Pow30),
     FromInt(MaxInt32), NumPow2(32), NumAdd(NumPow2(32), FromInt(5)),
     MAX_SAFE_INTEGER}
SizeSamples == {FromInt(k) : k \in 0 .. MaxSize} \cup LargeSizes

NoParams == [bitsNeeded |-> 0, bytesNeeded |-> 0, mask |-> 0]
NoSeed == U8(<<>>)

----------------------------------------------------------------------------
(* calculateParameters *)

\* The loop, on a record of the function's variables.
RECURSIVE calculateLoop(_)
calculateLoop(v) ==
    IF NumLess(Zero, v.range)
    THEN calculateLoop(
            [range |-> ShiftRightUnsigned1(v.range),
             bitsNeeded |-> v.bitsNeeded + 1,
             bytesNeeded |->
                 IF v.bitsNeeded % 8 = 0 THEN v.bytesNeeded + 1 ELSE v.bytesNeeded,
             mask |-> Or32(ShiftLeft1(v.mask), 1)])
    ELSE [bitsNeeded |-> v.bitsNeeded, bytesNeeded |-> v.bytesNeeded,
          mask |-> v.mask]

calculateParameters(r) ==
    calculateLoop([range |-> r, bitsNeeded |-> 0, bytesNeeded |-> 0, mask |-> 1])

\* The exported bytesNeeded(min, max) of release 3.2
bytesNeeded(min, max) == calculateParameters(NumSub(max, min)).bytesNeeded

----------------------------------------------------------------------------
(* Validation *)

isSafeInteger(n) ==
    ~(NumLess(n, MIN_SAFE_INTEGER) \/ NumLess(MAX_SAFE_INTEGER, n))

\* Number.isSafeInteger of the platform
NumberIsSafeInteger(v) == v.kind = "int" /\ isSafeInteger(v.n)

\* v < 0 for a bound v (null < 0 is false; n + 0.5 < 0 exactly when n < 0)
Negative(v) == v.kind # "null" /\ NumLess(v.n, Zero)

\* Greater with equal bounds let through (>= written for >)
GreaterOrEqual(max, min) == NumLeq(min.n, max.n)

\* maximum > minimum for two integers
Greater(max, min) == NumLess(min.n, max.n)

\* validate without the two safe-integer checks (as before release 1.0.2)
validateWithoutSafeCheck(min, max, gen) ==
    IF gen # "function" THEN "NoRandomSource"
    ELSE IF min.kind = "null" THEN "MinNotNumber"
    ELSE IF max.kind = "null" THEN "MaxNotNumber"
    ELSE IF min.kind = "frac" THEN "MinNotInteger"
    ELSE IF max.kind = "frac" THEN "MaxNotInteger"
    ELSE IF ~Greater(max, min) THEN "MinHigherThanMax"
    ELSE ""

\* The checks of randomNumber in src/index.js, in order; "" when all pass.
validate(min, max, gen) ==
    IF gen # "function" THEN "NoRandomSource"
    ELSE IF min.kind = "null" THEN "MinNotNumber"
    ELSE IF max.kind = "null" THEN "MaxNotNumber"
    ELSE IF min.kind = "frac" THEN "MinNotInteger"
    ELSE IF max.kind = "frac" THEN "MaxNotInteger"
    ELSE IF ~Greater(max, min) THEN "MinHigherThanMax"
    ELSE IF ~isSafeInteger(min.n) THEN "MinNotSafe"
    ELSE IF ~isSafeInteger(max.n) THEN "MaxNotSafe"
    ELSE ""

\* The checks shared by randomNumber and randomSeedNumber of release 3.2.
validateBounds(min, max) ==
    IF ~NumberIsSafeInteger(min) \/ Negative(min) THEN "MinNotSafePositiveInteger"
    ELSE IF ~NumberIsSafeInteger(max) \/ Negative(max) THEN "MaxNotSafePositiveInteger"
    ELSE IF ~Greater(max, min) THEN "MinHigherThanMax"
    ELSE ""

validateSeeded(min, max, gen) ==
    IF gen # "function" THEN "Expected generator to be a function"
    ELSE validateBounds(min, max)

----------------------------------------------------------------------------
(* Bytes to candidate *)

\* bytes[i], with undefined (an index past the end) read as 0 by <<
ByteAt(bytes, i) == IF i < Len(bytes) THEN bytes[i + 1] ELSE 0

\* for (i = 0; i < bytesNeeded; i++) randomValue |= bytes[i] << (8 * i)
RECURSIVE composeFrom(_, _, _, _)
composeFrom(bytes, n, i, randomValue) ==
    IF i < n
    THEN composeFrom(bytes, n, i + 1,
                     Or32(randomValue, ShiftLeftByte(ByteAt(bytes, i), 8 * i)))
    ELSE randomValue

\* randomValue = randomValue & mask
maskedValue(bytes, p) == And32(composeFrom(bytes, p.bytesNeeded, 0, 0), p.mask)

\* randomValue <= range
accepted(randomValue, r) == NumLeq(FromInt(randomValue), r)

----------------------------------------------------------------------------
(* randomSeedNumber of release 3.2 *)

\* seed.length < bytesNeeded; an ArrayBuffer has no length property, and
\* undefined < n is false.
seedTooShort(s, n) ==
    IF s.kind = "ArrayBuffer" THEN FALSE ELSE Len(s.bytes) < n

\* toU8 throws on anything that is neither an ArrayBuffer, a Uint8Array
\* nor a view with a buffer; otherwise it exposes the same bytes.
toU8(s) ==
    IF s.kind \in {"ArrayBuffer", "Uint8Array", "Buffer"}
    THEN [error |-> "", bytes |-> s.bytes]
    ELSE [error |-> "Expected Uint8Array", bytes |-> <<>>]

Thrown(e) == [error |-> e, value |-> Zero]
Returned(v) == [error |-> "", value |-> v]

randomSeedNumber(s, min, max) ==
    LET e == validateBounds(min, max)
        r == NumSub(max.n, min.n)
        p == calculateParameters(r)
        u == toU8(s)
        randomValue == maskedValue(u.bytes, p)
    IN  IF e # "" THEN Thrown(e)
        ELSE IF seedTooShort(s, p.bytesNeeded) THEN Thrown("Seed to short")
        ELSE IF u.error # "" THEN Thrown(u.error)
        ELSE IF accepted(randomValue, r)
             THEN Returned(NumAdd(min.n, FromInt(randomValue)))
             ELSE Returned(FromInt(0 - 1))

----------------------------------------------------------------------------
(* State *)

\* pc: "idle" (no call in progress), "await" (randomNumber suspended on the
\* generator's promise), "done" (returned), "failed" (threw).
\* calls counts the generator invocations of the call in progress, requested
\* is the byte count of the latest invocation and draws the buffers the
\* generator has delivered to the call, oldest first.

Init ==
    /\ pc = "idle"
    /\ op = "none"
    /\ minimum = Null
    /\ maximum = Null
    /\ generator = "function"
    /\ seed = NoSeed
    /\ range = Zero
    /\ params = NoParams
    /\ calls = 0
    /\ requested = 0
    /\ draws = <<>>
    /\ result = Zero
    /\ error = ""

\* A call begins: arguments bound, nothing computed yet.
Enter(name, min, max, gen, s) ==
    /\ pc = "idle"
    /\ op' = name
    /\ minimum' = min
    /\ maximum' = max
    /\ generator' = gen
    /\ seed' = s
    /\ draws' = <<>>

Throw(e) ==
    /\ pc' = "failed"
    /\ error' = e
    /\ result' = Zero

Return(v) ==
    /\ pc' = "done"
    /\ error' = ""
    /\ result' = v

\* const bytes = await generator(n): the generator is invoked and the call
\* is suspended until its bytes arrive.
Await(n) ==
    /\ pc' = "await"
    /\ calls' = calls + 1
    /\ requested' = n
    /\ error' = ""
    /\ result' = Zero

----------------------------------------------------------------------------
(* randomNumber of src/index.js *)

\* From the call to the first await.
randomNumber(min, max, gen) ==
    LET e == validate(min, max, gen)
        r == NumSub(max.n, min.n)
        p == calculateParameters(r)
    IN  /\ Enter("randomNumber", min, max, gen, NoSeed)
        /\ IF e # ""
           THEN /\ Throw(e)
                /\ UNCHANGED <<range, params, calls, requested>>
           ELSE /\ Exact(r)
                /\ range' = r
                /\ params' = p
                /\ Await(p.bytesNeeded)

\* The generator delivers bytes: one pass of the loop body, up to the
\* return or to the next await.
resumeRandomNumber(bytes) ==
    LET randomValue == maskedValue(bytes, params)
    IN  /\ pc = "await"
        /\ op = "randomNumber"
        /\ draws' = Append(draws, bytes)
        /\ IF accepted(randomValue, range)
           THEN /\ Return(NumAdd(minimum.n, FromInt(randomValue)))
                /\ UNCHANGED <<calls, requested>>
           ELSE /\ calls < MaxCalls
                /\ Await(params.bytesNeeded)
        /\ UNCHANGED <<op, minimum, maximum, generator, seed, range, params>>

----------------------------------------------------------------------------
(* randomNumber of release 3.2 (src/README.md) *)

randomNumber32(min, max, gen) ==
    LET e == validateSeeded(min, max, gen)
        r == NumSub(max.n, min.n)
        p == calculateParameters(r)
    IN  /\ Enter("randomNumber32", min, max, gen, NoSeed)
        /\ IF e # ""
           THEN /\ Throw(e)
                /\ UNCHANGED <<range, params, calls, requested>>
           ELSE /\ range' = r
                /\ params' = p
                /\ Await(p.bytesNeeded)

resumeRandomNumber32(bytes) ==
    LET n == randomSeedNumber(U8(bytes), minimum, maximum)
    IN  /\ pc = "await"
        /\ op = "randomNumber32"
        /\ draws' = Append(draws, bytes)
        /\ IF n.error # ""
           THEN /\ Throw(n.error)
                /\ UNCHANGED <<calls, requested>>
           ELSE IF n.value = FromInt(0 - 1)
           THEN /\ calls < MaxCalls
                /\ Await(params.bytesNeeded)
           ELSE /\ Return(n.value)
                /\ UNCHANGED <<calls, requested>>
        /\ UNCHANGED <<op, minimum, maximum, generator, seed, range, params>>

----------------------------------------------------------------------------
(* The synchronous entry points *)

callRandomSeedNumber(s, min, max) ==
    LET n == randomSeedNumber(s, min, max)
        valid == validateBounds(min, max) = ""
        r == NumSub(max.n, min.n)
    IN  /\ Enter("randomSeedNumber", min, max, "function", s)
        /\ range' = IF valid THEN r ELSE Zero
        /\ params' = IF valid THEN calculateParameters(r) ELSE NoParams
        /\ IF n.error # "" THEN Throw(n.error) ELSE Return(n.value)
        /\ UNCHANGED <<calls, requested>>

callBytesNeeded(min, max) ==
    /\ min.kind = "int"
    /\ max.kind = "int"
    /\ Exact(NumSub(max.n, min.n))
    /\ Enter("bytesNeeded", min, max, "function", NoSeed)
    /\ Return(FromInt(bytesNeeded(min.n, max.n)))
    /\ UNCHANGED <<range, params, calls, requested>>

callCalculateParameters(size) ==
    /\ Enter("calculateParameters", Null, Null, "function", NoSeed)
    /\ range' = size
    /\ params' = calculateParameters(size)
    /\ Return(Zero)
    /\ UNCHANGED <<calls, requested>>

\* The caller has the outcome; the next call starts from scratch.
Finish ==
    /\ pc \in {"done", "failed"}
    /\ pc' = "idle"
    /\ op' = "none"
    /\ minimum' = Null
    /\ maximum' = Null
    /\ generator' = "function"
    /\ seed' = NoSeed
    /\ range' = Zero
    /\ params' = NoParams
    /\ calls' = 0
    /\ requested' = 0
    /\ draws' = <<>>
    /\ result' = Zero
    /\ error' = ""

\* What the caller may hand to a call.
Arguments == MinimumSamples \X MaximumSamples

Next ==
    \/ /\ pc = "idle"
       /\ \E a \in Arguments, gen \in Generators : randomNumber(a[1], a[2], gen)
    \/ /\ pc = "await"
       /\ \E bytes \in Buffers(requested) : resumeRandomNumber(bytes)
    \/ /\ pc = "idle"
       /\ \E a \in Arguments, gen \in Generators : randomNumber32(a[1], a[2], gen)
    \/ /\ pc = "await"
       /\ \E bytes \in Buffers(requested) : resumeRandomNumber32(bytes)
    \/ /\ pc = "idle"
       /\ \E s \in Seeds, a \in Arguments : callRandomSeedNumber(s, a[1], a[2])
    \/ /\ pc = "idle"
       /\ \E a \in Arguments : callBytesNeeded(a[1], a[2])
    \/ /\ pc = "idle"
       /\ \E size \in SizeSamples : callCalculateParameters(size)
    \/ Finish

Spec == Init /\ [][Next]_vars

----------------------------------------------------------------------------
(* Vocabulary of the properties *)

RandomNumberOps == {"randomNumber", "randomNumber32"}

One == FromInt(1)
MinusOne == FromInt(0 - 1)

BothIntegers == minimum.kind = "int" /\ maximum.kind = "int"
InSafeRange(n) == NumLeq(NumSub(One, Pow53), n) /\ NumLeq(n, NumSub(Pow53, One))

\* 0 <= minimum < maximum, both safe integers: what release 3.2 accepts
ValidSeedBounds ==
    /\ BothIntegers
    /\ InSafeRange(minimum.n) /\ InSafeRange(maximum.n)
    /\ NumLeq(Zero, minimum.n) /\ NumLess(minimum.n, maximum.n)

Span == NumSub(maximum.n, minimum.n)

\* The byte sequence read as an unsigned integer, first byte lowest
\* (at most four bytes are ever requested).
LittleEndian(bytes) ==
    Norm(ByteAt(bytes, 3) \div 8,
         ByteAt(bytes, 0) + ByteAt(bytes, 1) * 2^8 + ByteAt(bytes, 2) * 2^16
            + (ByteAt(bytes, 3) % 8) * 2^24)

\* x & mask for an unsigned x < 2^32 and the mask read as 32 unsigned bits
MaskedUnsigned(x, mask) ==
    LET top == x.hi \div 16
        low == (x.hi % 16) * Limb + x.lo
        and == FromInt(BitAnd(low, Low31(mask)))
    IN  IF mask < 0 /\ top = 1 THEN NumAdd(and, NumPow2(31)) ELSE and

Candidate(bytes) == MaskedUnsigned(LittleEndian(bytes), params.mask)

----------------------------------------------------------------------------
(* C1 *)

\* C1: every value randomNumber returns lies in [minimum, maximum].
C1_ReturnedInRange ==
    (pc = "done" /\ op \in RandomNumberOps)
        => NumLeq(minimum.n, result) /\ NumLeq(result, maximum.n)

(* C2 *)

\* C2: over all buffers of bytesNeeded bytes, every value of [0, size] is the
\* accepted candidate of the same non-zero number of buffers.  Stated for
\* the calls that request one byte, whose 256 buffers are all counted, and
\* for the values of [0, size] below 256.
C2_Unbiased ==
    (pc = "await" /\ op \in RandomNumberOps /\ calls = 1 /\ requested = 1)
        => LET cand == [b \in 0 .. 255 |-> maskedValue(<<b>>, params)]
               Count(v) ==
                   Cardinality({b \in 0 .. 255 :
                                  cand[b] = v /\ accepted(cand[b], range)})
           IN  \A v \in 0 .. 255 :
                   NumLeq(FromInt(v), range)
                       => Count(v) > 0 /\ Count(v) = Count(0)

(* C3 *)

\* C3: the mask of calculateParameters(size) is 2^bitsNeeded - 1, is at least
\* size and is below 2 * (size + 1).
C3_MaskMinimal ==
    (pc = "done" /\ op = "calculateParameters")
        => LET mask == FromInt(params.mask)
           IN  /\ mask = NumSub(NumPow2(params.bitsNeeded), One)
               /\ NumLeq(range, mask)
               /\ NumLess(mask, NumAdd(NumAdd(range, range), FromInt(2)))

(* C4 *)

\* The smallest k with 2^k - 1 >= size
MinBits(size) ==
    CHOOSE k \in 0 .. 54 :
        /\ NumLeq(size, NumSub(NumPow2(k), One))
        /\ \A j \in 0 .. k - 1 : ~NumLeq(size, NumSub(NumPow2(j), One))

\* C4: for 0 <= size <= 2^53 - 1, bitsNeeded is the smallest k with
\* 2^k - 1 >= size and bytesNeeded is ceil(bitsNeeded / 8); both are 0 for 0.
C4_BitsAndBytes ==
    (pc = "done" /\ op = "calculateParameters" /\ InSafeRange(range))
        => /\ params.bitsNeeded = MinBits(range)
           /\ params.bytesNeeded = (params.bitsNeeded + 7) \div 8
           /\ (range = Zero => params.bitsNeeded = 0 /\ params.bytesNeeded = 0)

(* C5 *)

\* C5: on valid bounds and a seed of at least bytesNeeded bytes,
\* randomSeedNumber returns -1 or a safe integer in [minimum, maximum].
C5_SentinelOrInRange ==
    (/\ pc = "done" /\ op = "randomSeedNumber"
     /\ ValidSeedBounds
     /\ Len(seed.bytes) >= bytesNeeded(minimum.n, maximum.n))
        => \/ result = MinusOne
           \/ /\ InSafeRange(result)
              /\ NumLeq(minimum.n, result) /\ NumLeq(result, maximum.n)

(* C6 *)

\* An input the validation must refuse: a generator that is no function, a
\* bound that is no integer or lies outside the safe integers, or
\* minimum >= maximum.
InvalidInput ==
    \/ generator # "function"
    \/ ~BothIntegers
    \/ ~InSafeRange(minimum.n)
    \/ ~InSafeRange(maximum.n)
    \/ ~NumLess(minimum.n, maximum.n)

\* C6: randomNumber on an invalid input fails with an error, and the
\* generator has not been invoked.
C6_FailFast ==
    (pc # "idle" /\ op \in RandomNumberOps /\ InvalidInput)
        => pc = "failed" /\ error # "" /\ calls = 0 /\ draws = <<>>

\* randomNumber(0, 2^53): the last of the checks is the one that fails.
C6_Witness ==
    /\ pc = "failed" /\ op \in RandomNumberOps /\ calls = 0
    /\ generator = "function"
    /\ minimum = Integer(Zero) /\ maximum = Integer(Pow53)

(* C7 *)

RangeOps == RandomNumberOps \cup {"randomSeedNumber"}

MaximumNotAbove == BothIntegers /\ NumLeq(maximum.n, minimum.n)

\* C7 as stated: on integer bounds with maximum <= minimum, randomNumber and
\* randomSeedNumber fail with MinHigherThanMax.
C7_AlwaysMinHigherThanMax ==
    (pc # "idle" /\ op \in RangeOps /\ generator = "function" /\ MaximumNotAbove)
        => pc = "failed" /\ error = "MinHigherThanMax"

\* The error release 3.2 reports on integer bounds with maximum <= minimum.
SeededRangeError ==
    IF ~InSafeRange(minimum.n) \/ NumLess(minimum.n, Zero)
    THEN "MinNotSafePositiveInteger"
    ELSE IF ~InSafeRange(maximum.n) \/ NumLess(maximum.n, Zero)
    THEN "MaxNotSafePositiveInteger"
    ELSE "MinHigherThanMax"

\* C7 amended: on integer bounds with maximum <= minimum (equal bounds
\* included) the call fails before any byte is requested and returns no
\* value; the error is MinHigherThanMax in randomNumber of src/index.js, and
\* in release 3.2 when both bounds are non-negative safe integers, where a
\* negative or unsafe bound is reported first.
C7_FailsOnEmptyRange ==
    (pc # "idle" /\ op \in RangeOps /\ generator = "function" /\ MaximumNotAbove)
        => /\ pc = "failed"
           /\ calls = 0
           /\ error = IF op = "randomNumber" THEN "MinHigherThanMax"
                      ELSE SeededRangeError

\* randomSeedNumber(seed, 5, 5) and randomNumber(5, 5) have failed.
C7_Witness ==
    /\ pc = "failed" /\ op \in RangeOps /\ generator = "function"
    /\ minimum = Integer(FromInt(5)) /\ maximum = Integer(FromInt(5))
    /\ error = "MinHigherThanMax"

(* C8 *)

DeclaredBytes == bytesNeeded(minimum.n, maximum.n)

\* C8: on valid bounds a seed of fewer than bytesNeeded bytes makes
\* randomSeedNumber fail with the seed-too-short error.
C8_ShortSeedRejected ==
    (/\ pc \in {"done", "failed"} /\ op = "randomSeedNumber"
     /\ ValidSeedBounds
     /\ Len(seed.bytes) < DeclaredBytes)
        => pc = "failed" /\ error = "Seed to short"

(* C9 *)

\* C9: bytesNeeded(minimum, maximum) is calculateParameters(maximum -
\* minimum).bytesNeeded, the byte count of every request of randomNumber and
\* the smallest seed length randomSeedNumber accepts; bytesNeeded(1, 6) = 1.
C9_BytesNeeded ==
    /\ (pc = "done" /\ op = "bytesNeeded" /\ NumLess(minimum.n, maximum.n))
          => result = FromInt(calculateParameters(Span).bytesNeeded)
    /\ (pc = "await" /\ op \in RandomNumberOps) => requested = DeclaredBytes
    /\ (pc \in {"done", "failed"} /\ op = "randomSeedNumber" /\ ValidSeedBounds)
          => (error = "Seed to short" <=> Len(seed.bytes) < DeclaredBytes)
    /\ bytesNeeded(One, FromInt(6)) = 1

(* C10 *)

Rejected(i) == NumLess(range, Candidate(draws[i]))

\* C10: one generator invocation per loop pass; every draw before the last
\* had a masked little-endian candidate above size, the last one a candidate
\* of at most size, and the value returned is minimum plus that candidate.
C10_OneDrawPerPass ==
    op \in RandomNumberOps
        => /\ pc = "await"
                => /\ calls = Len(draws) + 1
                   /\ \A i \in 1 .. Len(draws) : Rejected(i)
           /\ pc = "done"
                => /\ calls = Len(draws)
                   /\ calls >= 1
                   /\ \A i \in 1 .. calls - 1 : Rejected(i)
                   /\ ~Rejected(calls)
                   /\ result = NumAdd(minimum.n, Candidate(draws[calls]))

----------------------------------------------------------------------------
(* Termination of randomNumber *)

\* The loop of randomNumber has no attempt counter.  The specification of
\* termination follows a call through any number of passes; what it records
\* of them stays bounded: calls stops counting at MaxCalls and draws holds
\* the latest buffer only.
AwaitAgain(n) ==
    /\ pc' = "await"
    /\ calls' = IF calls < MaxCalls THEN calls + 1 ELSE calls
    /\ requested' = n
    /\ error' = ""
    /\ result' = Zero

\* One pass of the loop of randomNumber (src/index.js) on the bytes delivered.
passRandomNumber(bytes) ==
    LET randomValue == maskedValue(bytes, params)
    IN  /\ pc = "await"
        /\ op = "randomNumber"
        /\ Len(bytes) = requested
        /\ draws' = <<bytes>>
        /\ IF accepted(randomValue, range)
           THEN /\ Return(NumAdd(minimum.n, FromInt(randomValue)))
                /\ UNCHANGED <<calls, requested>>
           ELSE AwaitAgain(params.bytesNeeded)
        /\ UNCHANGED <<op, minimum, maximum, generator, seed, range, params>>

\* One pass of the loop of randomNumber (release 3.2) on the bytes delivered.
passRandomNumber32(bytes) ==
    LET n == randomSeedNumber(U8(bytes), minimum, maximum)
    IN  /\ pc = "await"
        /\ op = "randomNumber32"
        /\ Len(bytes) = requested
        /\ draws' = <<bytes>>
        /\ IF n.error # ""
           THEN /\ Throw(n.error)
                /\ UNCHANGED <<calls, requested>>
           ELSE IF n.value = FromInt(0 - 1)
           THEN AwaitAgain(params.bytesNeeded)
           ELSE /\ Return(n.value)
                /\ UNCHANGED <<calls, requested>>
        /\ UNCHANGED <<op, minimum, maximum, generator, seed, range, params>>

LiveNext ==
    \/ /\ pc = "idle"
       /\ \E a \in Arguments, gen \in Generators : randomNumber(a[1], a[2], gen)
    \/ /\ pc = "await"
       /\ \E bytes \in Buffers(requested) : passRandomNumber(bytes)
    \/ /\ pc = "idle"
       /\ \E a \in Arguments, gen \in Generators : randomNumber32(a[1], a[2], gen)
    \/ /\ pc = "await"
       /\ \E bytes \in Buffers(requested) : passRandomNumber32(bytes)
    \/ Finish

\* Every buffer some call may be waiting for.
DeliverableBuffers ==
    UNION {Buffers(bytesNeeded(a[1].n, a[2].n)) :
              a \in {b \in Arguments : b[1].kind = "int" /\ b[2].kind = "int"}}

\* The byte source hands the call the buffer it asked for.
deliver(bytes) ==
    /\ pc = "await"
    /\ Len(bytes) = requested
    /\ draws' = <<bytes>>

\* The byte source answers every request and is fair: a buffer that stays
\* possible while the call waits is eventually delivered.
FairSource == \A bytes \in DeliverableBuffers : WF_draws(deliver(bytes))

LiveSpec == Init /\ [][LiveNext]_vars /\ FairSource

(* C11 *)

\* Every call that has passed validation and waits for bytes returns a value.
EventuallyReturns == (pc = "await") ~> (pc = "done")

\* The loop asks for bytes again only after a draw whose candidate is above
\* size.
RepeatsOnlyOnRejection ==
    [][(pc = "await" /\ pc' = "await")
          => NumLess(range, Candidate(draws'[1]))]_vars

\* C11: under a fair byte source every call of randomNumber that has passed
\* validation eventually returns a value, and the loop, which has no count
\* of attempts, repeats only after a rejected draw (candidate above size).
C11_Terminates == EventuallyReturns /\ RepeatsOnlyOnRejection
====
